---- MODULE Spec2Model ----
(***************************************************************************)
(* Model of the text-to-speech chat application:                           *)
(*   - utils/audioUtils  : decodeBase64, decodeAudioData, playAudioBuffer   *)
(*   - services/geminiService : synthesizeAndPlaySpeech                     *)
(*   - App               : handleSendMessage, the two playback handlers,    *)
(*                         handleSelectApiKey, the mount effect             *)
(*   - TextInput         : handleSubmit                                     *)
(*                                                                         *)
(* Time is counted in ticks of 1/TTS_SAMPLE_RATE second: the audio context  *)
(* is created with sampleRate 24000 and every buffer is created with the   *)
(* same rate, so currentTime, start times and durations are all whole       *)
(* numbers of ticks.                                                        *)
(***************************************************************************)
EXTENDS Integers, Sequences, FiniteSets, Bags, TLC

(***************************************************************************)
(* Program constants                                                       *)
(***************************************************************************)
TTS_SAMPLE_RATE == 24000
TTS_CHANNELS == 1
\* outputAudioContext is created with this sampleRate
CTX_SAMPLE_RATE == 24000
\* the divisor of decodeAudioData
PCM_SCALE == 32768

(***************************************************************************)
(* Bounds of the model                                                     *)
(***************************************************************************)
\* invocations of handleSendMessage that are in flight at the same time
MaxCalls == 2
\* the audio clock stops advancing at this tick
MaxTime == 3
\* length of a base64 payload, in base64 digits (padding removed)
MaxB64Len == 6
\* length of a raw byte sequence handed to decodeAudioData directly
MaxBytes == 6
\* channel counts handed to decodeAudioData directly
MaxChannels == 3

\* base64 digits (as their 6-bit values) used in provider payloads: the
\* application depends on a payload's length only
B64Digits == {63}
\* byte values used in raw byte sequences
ByteValues == {0, 127, 128, 255}

Max(a, b) == IF a >= b THEN a ELSE b

SeqsUpTo(S, n) == UNION {[1..k -> S] : k \in 0..n}

(***************************************************************************)
(* Errors: every thrown value is a record name/status/message; status 0    *)
(* stands for "no status property".                                        *)
(***************************************************************************)
Err(name, status, message) == [name |-> name, status |-> status, message |-> message]

RangeError == Err("RangeError", 0, "byte length of Int16Array should be a multiple of 2")
NotSupportedError == Err("NotSupportedError", 0, "createBuffer: argument out of range")
InvalidCharacterError == Err("InvalidCharacterError", 0, "atob: not correctly encoded")
NoError == Err("none", 0, "")
MissingKeyError == Err("Error", 0, "API_KEY is missing from environment. Please select an API key.")
StartError == Err("InvalidStateError", 0, "start: cannot schedule")

Ok(v) == [ok |-> TRUE, value |-> v]
Fail(e) == [ok |-> FALSE, error |-> e]

(***************************************************************************)
(* decodeBase64: atob over the digits of the payload, then one byte per    *)
(* character code.  A payload is its sequence of 6-bit digit values with   *)
(* the '=' padding already stripped, as atob strips it.                    *)
(***************************************************************************)
\* the 24-bit group starting at digit 4g+1, missing digits read as 0
B64Group(s, g) ==
  LET d(k) == IF 4 * g + k <= Len(s) THEN s[4 * g + k] ELSE 0
  IN  d(1) * 262144 + d(2) * 4096 + d(3) * 64 + d(4)

\* byte j (0-based) of the decoded string
B64Byte(s, j) ==
  LET n == B64Group(s, j \div 3)
  IN  CASE j % 3 = 0 -> n \div 65536
        [] j % 3 = 1 -> (n \div 256) % 256
        [] OTHER     -> n % 256

Atob(s) ==
  IF Len(s) % 4 = 1
  THEN Fail(InvalidCharacterError)
  ELSE Ok([i \in 1..((Len(s) * 6) \div 8) |-> B64Byte(s, i - 1)])

DecodeBase64(base64) ==
  LET binaryString == Atob(base64)
  IN  IF binaryString.ok
      THEN Ok([i \in 1..Len(binaryString.value) |-> binaryString.value[i]])
      ELSE binaryString

(***************************************************************************)
(* decodeAudioData                                                         *)
(***************************************************************************)
\* variant: the 16-bit pattern read unsigned (a Uint16Array view)
ToInt16_Unsigned(u) == u

\* a 16-bit pattern read as a signed integer
ToInt16(u) == IF u >= 32768 THEN u - 65536 ELSE u

\* variant: a trailing odd byte is dropped instead of refused
NewInt16Array_Truncating(data) ==
  Ok([k \in 1..(Len(data) \div 2) |-> ToInt16(data[2 * k - 1] + 256 * data[2 * k])])

\* new Int16Array(data.buffer): throws unless the byte length is a multiple
\* of 2; element k (0-based) is the little-endian pair of bytes 2k, 2k+1
NewInt16Array(data) ==
  IF Len(data) % 2 # 0
  THEN Fail(RangeError)
  ELSE Ok([k \in 1..(Len(data) \div 2) |-> ToInt16(data[2 * k - 1] + 256 * data[2 * k])])

\* dataInt16.length / numChannels is a floating-point division: the quotient
\* is kept as the fraction num/den
FrameCount(samples, numChannels) == [num |-> samples, den |-> numChannels]

\* variant: the frame count rounded up (Math.ceil)
ToUnsignedLong_RoundUp(q) == (q.num + q.den - 1) \div q.den

\* WebIDL conversion of a non-negative number to "unsigned long": truncation
ToUnsignedLong(q) == q.num \div q.den

\* a sample value is the fraction num/den; a new buffer holds zeros
Silence == [num |-> 0, den |-> 1]

\* ctx.createBuffer(numChannels, length, sampleRate): a buffer of silent
\* channels, or NotSupportedError when an argument is zero or out of range
CreateBuffer(numChannels, length, sampleRate) ==
  IF numChannels < 1 \/ numChannels > 32 \/ length < 1
     \/ sampleRate < 8000 \/ sampleRate > 96000
  THEN Fail(NotSupportedError)
  ELSE Ok([numberOfChannels |-> numChannels,
           length |-> length,
           sampleRate |-> sampleRate,
           channelData |-> [c \in 1..numChannels |-> [i \in 1..length |-> Silence]]])

\* a read past the end of the Int16Array gives undefined, and undefined / 32768.0
\* is NaN
NaN == [num |-> 0, den |-> 0]

\* the value stored by channelData[i] = dataInt16[i * numChannels + channel] / 32768.0
\* (i and channel 0-based); the quotient is exact in a Float32Array
Sample(dataInt16, numChannels, channel, i) ==
  LET k == i * numChannels + channel + 1
  IN  IF k \in DOMAIN dataInt16
      THEN [num |-> dataInt16[k], den |-> PCM_SCALE]
      ELSE NaN

\* The two loops.  The inner loop runs for every integer i < frameCount,
\* frameCount being the unrounded quotient; a store at an index
\* i >= buffer.length falls outside the Float32Array and is ignored, so only
\* the frames the buffer has are written.
LoopIndices(frameCount) == {i \in 0..frameCount.num : i * frameCount.den < frameCount.num}

FillChannels(buffer, dataInt16, frameCount, numChannels) ==
  [buffer EXCEPT !.channelData =
     [c \in 1..numChannels |->
        [i \in 1..buffer.length |->
           IF (i - 1) \in LoopIndices(frameCount)
           THEN Sample(dataInt16, numChannels, c - 1, i - 1)
           ELSE buffer.channelData[c][i]]]]

DecodeAudioData(data, sampleRate, numChannels) ==
  LET dataInt16 == NewInt16Array(data)
  IN  IF ~dataInt16.ok THEN dataInt16
      ELSE LET frameCount == FrameCount(Len(dataInt16.value), numChannels)
               buffer == CreateBuffer(numChannels, ToUnsignedLong(frameCount), sampleRate)
           IN  IF ~buffer.ok THEN buffer
               ELSE Ok(FillChannels(buffer.value, dataInt16.value, frameCount, numChannels))

\* AudioBuffer.duration = length / sampleRate seconds, in ticks
Duration(audioBuffer) == (audioBuffer.length * CTX_SAMPLE_RATE) \div audioBuffer.sampleRate

(***************************************************************************)
(* playAudioBuffer: the cursor is first raised to the audio clock, the     *)
(* source is started there, and the cursor is advanced by the duration.    *)
(* startThrows is the host refusing source.start: the cursor then keeps    *)
(* the value the first assignment gave it.                                 *)
(***************************************************************************)
\* variant: the source is started at the cursor, the audio clock is not consulted
PlayAudioBuffer_NoMax(duration, now, cursor, startThrows) ==
  IF startThrows
  THEN [ok |-> FALSE, start |-> cursor, nextStartTime |-> cursor]
  ELSE [ok |-> TRUE, start |-> cursor, nextStartTime |-> cursor + duration]


PlayAudioBuffer(duration, now, cursor, startThrows) ==
  LET start == Max(cursor, now)
  IN  IF startThrows
      THEN [ok |-> FALSE, start |-> start, nextStartTime |-> start]
      ELSE [ok |-> TRUE, start |-> start, nextStartTime |-> start + duration]

(***************************************************************************)
(* State                                                                   *)
(***************************************************************************)
VARIABLES
  botStatus,      \* App: useState<BotStatus>
  isSpeaking,     \* App: useState<boolean>
  isProcessing,   \* App: useState<boolean>
  hasApiKey,      \* App: useState<boolean>
  nextStartTime,  \* App: nextStartTimeRef.current, the audio clock cursor
  ctxState,       \* outputAudioContext.state
  currentTime,    \* outputAudioContext.currentTime
  apiKeyEnv,      \* whether process.env.API_KEY is set
  aistudio,       \* whether window.aistudio exists
  keyCheck,       \* the mount effect's hasSelectedApiKey() promise
  selectKey,      \* handleSelectApiKey's openSelectKey() promise
  calls,          \* the bag of handleSendMessage invocations in flight, each with its synthesizeAndPlaySpeech
  finished,       \* the invocation that ended in the last step, if one did: its call's locals and log
  lastSource,     \* the source started last on the audio context
  pcmData,        \* decodeAudioData called on its own: data
  pcmChannels,    \* ... numChannels
  pcmResult       \* ... the settled promise

appVars == <<botStatus, isSpeaking, isProcessing, hasApiKey, nextStartTime>>
envVars == <<ctxState, currentTime, apiKeyEnv, aistudio, keyCheck, selectKey>>
pcmVars == <<pcmData, pcmChannels, pcmResult>>
vars == <<appVars, envVars, calls, finished, lastSource, pcmVars>>

BotStatus == {"Idle", "Processing", "Speaking", "Error"}

\* the locals of one synthesizeAndPlaySpeech call, the position of its
\* handleSendMessage (pc), and the order in which the call invoked its
\* callbacks and settled (log); tracked is a label that lets a property
\* follow one invocation among several, the program never reads it
\* an AudioBufferSourceNode is known by when it was started and for how long
NoSource == [start |-> -1, duration |-> 0]

NewCall ==
  [pc |-> "unused", currentSources |-> {}, playbackScheduled |-> FALSE,
   log |-> <<>>, thrown |-> NoError, error |-> NoError, byteLength |-> -1,
   tracked |-> FALSE]

InFlight == BagToSet(calls)

NotDecoded == Fail(NoError)

\* the React state and the cursor ref, as one value threaded through a handler
App ==
  [botStatus |-> botStatus, isSpeaking |-> isSpeaking, isProcessing |-> isProcessing,
   hasApiKey |-> hasApiKey, nextStartTime |-> nextStartTime]

SetApp(a) ==
  /\ botStatus' = a.botStatus
  /\ isSpeaking' = a.isSpeaking
  /\ isProcessing' = a.isProcessing
  /\ hasApiKey' = a.hasApiKey
  /\ nextStartTime' = a.nextStartTime

\* what a handler running for invocation r works on
Frame(r) == [app |-> App, call |-> r, lastSource |-> lastSource]

\* a handler of invocation r has run (r = NewCall: the invocation begins);
\* an invocation that reached its end leaves the bag
Commit(r, s) ==
  /\ SetApp(s.app)
  /\ lastSource' = s.lastSource
  /\ LET others == IF r = NewCall THEN calls ELSE calls (-) SetToBag({r})
     IN  IF s.call.pc = "done"
         THEN /\ finished' = s.call
              /\ calls' = others
         ELSE /\ finished' = NewCall
              /\ calls' = others (+) SetToBag({s.call})

(***************************************************************************)
(* App: the two playback handlers                                          *)
(***************************************************************************)
HandleSpeechPlaybackStarted(app) ==
  [app EXCEPT !.isSpeaking = TRUE, !.botStatus = "Speaking"]

\* variant: the ended handler also returns the status to Idle
HandleSpeechPlaybackEnded_SetsIdle(app) ==
  [app EXCEPT !.isSpeaking = FALSE,
              !.isProcessing = FALSE,
              !.botStatus = "Idle",
              !.nextStartTime = IF currentTime # 0 THEN currentTime ELSE 0]

HandleSpeechPlaybackEnded(app) ==
  [app EXCEPT !.isSpeaking = FALSE,
              !.isProcessing = FALSE,
              !.nextStartTime = IF currentTime # 0 THEN currentTime ELSE 0]

(***************************************************************************)
(* synthesizeAndPlaySpeech                                                 *)
(***************************************************************************)
\* the call invokes the callbacks it was given
OnPlaybackStarted(s) ==
  [s EXCEPT !.call.log = Append(@, "started"),
            !.app = HandleSpeechPlaybackStarted(@)]

OnPlaybackEnded(s) ==
  [s EXCEPT !.call.log = Append(@, "ended"),
            !.app = HandleSpeechPlaybackEnded(@)]

\* variant: the listener invokes the callback but keeps the source in the set
OnSourceEnded_KeepsSource(s, source) == OnPlaybackEnded(s)

\* variant: the listener only forgets the source
OnSourceEnded_NoCallback(s, source) ==
  [s EXCEPT !.call.currentSources = @ \ {source}]


OnSourceEnded(s, source) ==
  LET s1 == [s EXCEPT !.call.currentSources = @ \ {source}]
  IN  IF Cardinality(s1.call.currentSources) = 0 THEN OnPlaybackEnded(s1) ELSE s1

\* an error is raised inside the try block
Throw(s, error) == [s EXCEPT !.call.thrown = error]

\* variant: the catch block re-throws without the terminal callback
ServiceCatch_NoCleanup(s) ==
  [s EXCEPT !.call.log = Append(@, "rejected"), !.call.error = s.call.thrown]


\* the catch block: the terminal callback unless a chunk was scheduled, then
\* the caught error is re-thrown
ServiceCatch(s) ==
  LET s1 == IF ~s.call.playbackScheduled THEN OnPlaybackEnded(s) ELSE s
  IN  [s1 EXCEPT !.call.log = Append(@, "rejected"), !.call.error = s.call.thrown]

\* variant: the source is started but not registered, nothing listens for its end
SchedulePlayback_NoListener(s, audioBuffer, startThrows) ==
  LET s1 == OnPlaybackStarted(s)
      p == PlayAudioBuffer(Duration(audioBuffer), currentTime, s1.app.nextStartTime,
                           startThrows)
      s2 == [s1 EXCEPT !.app.nextStartTime = p.nextStartTime]
  IN  IF ~p.ok
      THEN ServiceCatch(Throw(s2, StartError))
      ELSE LET source == [start |-> p.start, duration |-> Duration(audioBuffer)]
           IN [s2 EXCEPT
              !.lastSource = source,
              !.call.playbackScheduled = TRUE,
              !.call.log = Append(@, "resolvedTrue")]

\* variant: the started callback is not invoked
SchedulePlayback_NoStarted(s, audioBuffer, startThrows) ==
  LET p == PlayAudioBuffer(Duration(audioBuffer), currentTime, s.app.nextStartTime,
                           startThrows)
      s2 == [s EXCEPT !.app.nextStartTime = p.nextStartTime]
  IN  IF ~p.ok
      THEN ServiceCatch(Throw(s2, StartError))
      ELSE LET source == [start |-> p.start, duration |-> Duration(audioBuffer)]
           IN [s2 EXCEPT
              !.lastSource = source,
              !.call.currentSources = @ \cup {source},
              !.call.playbackScheduled = TRUE,
              !.call.log = Append(@, "resolvedTrue")]


\* lines 72-88: started callback, playAudioBuffer, registration, return
SchedulePlayback(s, audioBuffer, startThrows) ==
  LET s1 == OnPlaybackStarted(s)
      p == PlayAudioBuffer(Duration(audioBuffer), currentTime, s1.app.nextStartTime,
                           startThrows)
      s2 == [s1 EXCEPT !.app.nextStartTime = p.nextStartTime]
  IN  IF ~p.ok
      THEN ServiceCatch(Throw(s2, StartError))
      ELSE LET source == [start |-> p.start, duration |-> Duration(audioBuffer)]
           IN [s2 EXCEPT
              !.lastSource = source,
              !.call.currentSources = @ \cup {source},
              !.call.playbackScheduled = TRUE,
              !.call.log = Append(@, "resolvedTrue")]

\* lines 65-76: the decoded bytes become a buffer, which is played
PlayDecoded(s, decodedBytes, startThrows) ==
  LET s1 == [s EXCEPT !.call.byteLength = Len(decodedBytes)]
      audioBuffer == DecodeAudioData(decodedBytes, TTS_SAMPLE_RATE, TTS_CHANNELS)
  IN  IF ~audioBuffer.ok THEN ServiceCatch(Throw(s1, audioBuffer.error))
      ELSE SchedulePlayback(s1, audioBuffer.value, startThrows)

\* lines 61-64: the payload is decoded from base64
DecodePayload(s, base64Audio, startThrows) ==
  LET decodedBytes == DecodeBase64(base64Audio)
  IN  IF ~decodedBytes.ok THEN ServiceCatch(Throw(s, decodedBytes.error))
      ELSE PlayDecoded(s, decodedBytes.value, startThrows)

\* variant: the no-audio branch returns without the terminal callback
NoAudio_NoCallback(s) ==
  [s EXCEPT !.call.log = Append(@, "resolvedFalse")]


\* lines 78-83: no audio in the response
NoAudio(s) ==
  [OnPlaybackEnded(s) EXCEPT !.call.log = Append(@, "resolvedFalse")]

\* variant: a provider rejection is reported as "no audio"
SynthesizeAfterResponse_ErrorAsFalse(s, response, startThrows) ==
  CASE response.kind = "audio" -> DecodePayload(s, response.data, startThrows)
    [] OTHER -> NoAudio(s)

\* the call from the point where the provider request settles; thrown is the
\* error raised inside the try block, error the one the promise rejects with
SynthesizeAfterResponse(s, response, startThrows) ==
  CASE response.kind = "reject" -> ServiceCatch(Throw(s, response.error))
    [] response.kind = "noAudio" -> NoAudio(s)
    [] OTHER -> DecodePayload(s, response.data, startThrows)

\* how the call's promise settled
Settlements == {"resolvedTrue", "resolvedFalse", "rejected"}

Outcome(call) ==
  IF \E i \in 1..Len(call.log) : call.log[i] \in Settlements
  THEN call.log[CHOOSE i \in 1..Len(call.log) : call.log[i] \in Settlements]
  ELSE "pending"

(***************************************************************************)
(* App: handleSendMessage                                                  *)
(***************************************************************************)
\* errorMessage.includes(...) || status === 401 || status === 403 || ...
IsApiKeyError(error) ==
  \/ error.message = MissingKeyError.message
  \/ error.status = 401
  \/ error.status = 403
  \/ error.message = "Requested entity was not found."

\* lines 93-116: what follows the await of synthesizeAndPlaySpeech
AfterSynthesize(s) ==
  CASE Outcome(s.call) = "resolvedFalse" ->
         [s EXCEPT !.app.botStatus = "Idle", !.call.pc = "done"]
    [] Outcome(s.call) = "resolvedTrue" ->
         [s EXCEPT !.call.pc = "playing"]
    [] OTHER ->
         LET s1 == [s EXCEPT !.app.botStatus = "Error"]
             s2 == [s1 EXCEPT !.app = HandleSpeechPlaybackEnded(@)]
         IN  [s2 EXCEPT !.app.hasApiKey = IF IsApiKeyError(s.call.error) THEN FALSE ELSE @,
                        !.call.pc = "done"]

\* lines 78-91 and the call's synchronous start (lines 27-47)
SendBody(s) ==
  LET s1 == [s EXCEPT !.app.isProcessing = TRUE, !.app.botStatus = "Processing"]
  IN  IF ~apiKeyEnv
      THEN AfterSynthesize(ServiceCatch(Throw(s1, MissingKeyError)))
      ELSE [s1 EXCEPT !.call.pc = "requesting"]

(***************************************************************************)
(* Environment values                                                      *)
(***************************************************************************)
\* rejections of ai.models.generateContent
ProviderErrors ==
  { Err("ApiError", 401, "API key not valid."),
    Err("ApiError", 403, "Permission denied."),
    Err("ApiError", 404, "Requested entity was not found."),
    Err("ApiError", 500, "Internal error."),
    Err("TypeError", 0, "Failed to fetch") }

\* base64Audio of a response: absent (or empty), or a non-empty payload
Payloads == SeqsUpTo(B64Digits, MaxB64Len) \ {<<>>}

Responses ==
  {[kind |-> "noAudio", data |-> <<>>, error |-> NoError]}
  \cup {[kind |-> "audio", data |-> d, error |-> NoError] : d \in Payloads}
  \cup {[kind |-> "reject", data |-> <<>>, error |-> e] : e \in ProviderErrors}

(***************************************************************************)
(* Initial state: the component is mounted, the audio context exists, the  *)
(* mount effect's key check is in flight when window.aistudio exists.      *)
(***************************************************************************)
AppInit ==
  /\ botStatus = "Idle"
  /\ isSpeaking = FALSE
  /\ isProcessing = FALSE
  /\ hasApiKey = TRUE
  /\ nextStartTime = 0
  /\ currentTime = 0
  /\ selectKey = "idle"
  /\ calls = EmptyBag
  /\ finished = NewCall
  /\ lastSource = NoSource

PcmIdle ==
  /\ pcmData = <<>>
  /\ pcmChannels = TTS_CHANNELS
  /\ pcmResult = NotDecoded

Init ==
  /\ AppInit
  /\ ctxState \in {"suspended", "running"}
  /\ apiKeyEnv \in BOOLEAN
  /\ aistudio \in BOOLEAN
  /\ keyCheck = IF aistudio THEN "pending" ELSE "done"
  /\ PcmIdle

(***************************************************************************)
(* Actions                                                                 *)
(***************************************************************************)
\* App line 181
isDisabled == isProcessing \/ isSpeaking \/ ~hasApiKey

\* TextInput.handleSubmit with a non-blank text, and handleSendMessage up to
\* its first await; the new invocation carries the label tracked
SubmitAs(tracked) ==
  /\ BagCardinality(calls) < MaxCalls
  /\ ~isDisabled
  /\ LET s == [Frame(NewCall) EXCEPT !.call.tracked = tracked]
     IN  IF ~hasApiKey
         THEN Commit(NewCall, [s EXCEPT !.call.pc = "done"])
         ELSE IF ctxState = "suspended"
              THEN Commit(NewCall, [s EXCEPT !.call.pc = "resuming"])
              ELSE Commit(NewCall, SendBody(s))
  /\ UNCHANGED <<envVars, pcmVars>>

Submit == SubmitAs(FALSE)

\* outputAudioContext.resume() settles; handleSendMessage goes on either way:
\* the return in the catch callback leaves the callback only
ResumeSettles(r, resumed) ==
  /\ r.pc = "resuming"
  /\ resumed \/ ctxState = "suspended"
  /\ ctxState' = IF resumed THEN "running" ELSE ctxState
  /\ Commit(r, SendBody(IF resumed THEN Frame(r)
                        ELSE [Frame(r) EXCEPT !.app.botStatus = "Error"]))
  /\ UNCHANGED <<currentTime, apiKeyEnv, aistudio, keyCheck, selectKey, pcmVars>>

\* the provider request of invocation r settles; the call and handleSendMessage
\* run to their end
ProviderResponds(r, response, startThrows) ==
  /\ r.pc = "requesting"
  /\ Commit(r, AfterSynthesize(SynthesizeAfterResponse(Frame(r), response, startThrows)))
  /\ UNCHANGED <<envVars, pcmVars>>

\* the 'ended' event of a source of invocation r: playback has passed its end
SourceEnded(r, source) ==
  /\ r.pc = "playing"
  /\ source \in r.currentSources
  /\ ctxState = "running"
  /\ currentTime >= source.start + source.duration
  /\ Commit(r, [OnSourceEnded(Frame(r), source) EXCEPT !.call.pc = "done"])
  /\ UNCHANGED <<envVars, pcmVars>>

\* the audio clock of a running context advances
Tick ==
  /\ ctxState = "running"
  /\ currentTime < MaxTime
  /\ currentTime' = currentTime + 1
  /\ UNCHANGED <<appVars, ctxState, apiKeyEnv, aistudio, keyCheck, selectKey, calls,
                 lastSource, pcmVars>>
  /\ finished' = NewCall

\* App lines 154-166: hasSelectedApiKey() settles
KeyCheckSettles(result) ==
  /\ keyCheck = "pending"
  /\ keyCheck' = "done"
  /\ hasApiKey' = (result = "selected")
  /\ botStatus' = IF result = "selected" THEN botStatus ELSE "Error"
  /\ UNCHANGED <<isSpeaking, isProcessing, nextStartTime, ctxState, currentTime,
                 apiKeyEnv, aistudio, selectKey, calls, lastSource, pcmVars>>
  /\ finished' = NewCall

\* App lines 123-139: the Select API Key button, shown while !hasApiKey
ClickSelectKey ==
  /\ ~hasApiKey
  /\ selectKey = "idle"
  /\ selectKey' = IF aistudio THEN "pending" ELSE "idle"
  /\ UNCHANGED <<appVars, ctxState, currentTime, apiKeyEnv, aistudio, keyCheck, calls,
                 lastSource, pcmVars>>
  /\ finished' = NewCall

\* openSelectKey() settles; on success the key may or may not reach process.env
SelectKeySettles(opened, keyNow) ==
  /\ selectKey = "pending"
  /\ selectKey' = "idle"
  /\ IF opened
     THEN /\ hasApiKey' = TRUE
          /\ botStatus' = "Idle"
          /\ apiKeyEnv' = keyNow
     ELSE /\ keyNow = apiKeyEnv
          /\ UNCHANGED <<hasApiKey, botStatus, apiKeyEnv>>
  /\ UNCHANGED <<isSpeaking, isProcessing, nextStartTime, ctxState, currentTime,
                 aistudio, keyCheck, calls, lastSource, pcmVars>>
  /\ finished' = NewCall

Next ==
  \/ Submit
  \/ \E r \in InFlight : ResumeSettles(r, TRUE)
  \/ \E r \in InFlight : ResumeSettles(r, FALSE)
  \/ \E r \in InFlight, response \in Responses, startThrows \in BOOLEAN :
       ProviderResponds(r, response, startThrows)
  \/ \E r \in InFlight : \E source \in r.currentSources : SourceEnded(r, source)
  \/ Tick
  \/ \E result \in {"selected", "notSelected", "rejected"} : KeyCheckSettles(result)
  \/ ClickSelectKey
  \/ \E opened \in BOOLEAN, keyNow \in BOOLEAN : SelectKeySettles(opened, keyNow)

Spec == Init /\ [][Next]_vars

(***************************************************************************)
(* Progress of one utterance.  Any submission may be the one that is       *)
(* followed (at most one at a time); the API key selection is left out.    *)
(* Fairness is what the progress claim assumes of the environment: the     *)
(* provider request of the followed call settles, the audio clock of a     *)
(* running context advances, and the host delivers the ended event of a    *)
(* source whose end the clock has passed.                                  *)
(***************************************************************************)
Followed == {r \in InFlight : r.tracked}

LiveInit ==
  /\ AppInit
  /\ ctxState \in {"suspended", "running"}
  /\ apiKeyEnv \in BOOLEAN
  /\ aistudio = FALSE
  /\ keyCheck = "done"
  /\ PcmIdle

SubmitFollowed ==
  /\ Followed = {}
  /\ SubmitAs(TRUE)

ProviderRespondsFollowed ==
  \E r \in Followed, response \in Responses, startThrows \in BOOLEAN :
    ProviderResponds(r, response, startThrows)

SourceEndedFollowed ==
  \E r \in Followed : \E source \in r.currentSources : SourceEnded(r, source)

LiveNext ==
  \/ Submit
  \/ SubmitFollowed
  \/ \E r \in InFlight : ResumeSettles(r, TRUE)
  \/ \E r \in InFlight : ResumeSettles(r, FALSE)
  \/ \E r \in InFlight, response \in Responses, startThrows \in BOOLEAN :
       ProviderResponds(r, response, startThrows)
  \/ \E r \in InFlight : \E source \in r.currentSources : SourceEnded(r, source)
  \/ Tick

LiveSpec ==
  /\ LiveInit
  /\ [][LiveNext]_vars
  /\ WF_vars(ProviderRespondsFollowed)
  /\ WF_vars(Tick)
  /\ WF_vars(SourceEndedFollowed)

(***************************************************************************)
(* decodeAudioData on its own: any byte sequence, any channel count        *)
(***************************************************************************)
RawInputs == SeqsUpTo(ByteValues, MaxBytes)

\* a request is in flight whose payload will decode (base64) to pcmData
Requesting == [NewCall EXCEPT !.pc = "requesting"]

DecodeInit ==
  /\ botStatus = "Processing"
  /\ isSpeaking = FALSE
  /\ isProcessing = TRUE
  /\ hasApiKey = TRUE
  /\ nextStartTime = 0
  /\ currentTime = 0
  /\ selectKey = "idle"
  /\ calls = SetToBag({Requesting})
  /\ finished = NewCall
  /\ lastSource = NoSource
  /\ ctxState = "running"
  /\ apiKeyEnv = TRUE
  /\ aistudio = FALSE
  /\ keyCheck = "done"
  /\ pcmData \in RawInputs
  /\ pcmChannels \in 1..MaxChannels
  /\ pcmResult = NotDecoded

\* the promise of decodeAudioData(pcmData, ctx, TTS_SAMPLE_RATE, pcmChannels) settles
DecodeCall ==
  /\ pcmResult = NotDecoded
  /\ pcmResult' = DecodeAudioData(pcmData, TTS_SAMPLE_RATE, pcmChannels)
  /\ UNCHANGED <<appVars, envVars, calls, finished, lastSource, pcmData, pcmChannels>>

\* the provider answers the request with the payload of pcmData
RespondWithBytes(r, startThrows) ==
  /\ r.pc = "requesting"
  /\ Commit(r, AfterSynthesize(PlayDecoded(Frame(r), pcmData, startThrows)))
  /\ UNCHANGED <<envVars, pcmVars>>

DecodeNext ==
  \/ DecodeCall
  \/ \E r \in InFlight, startThrows \in BOOLEAN : RespondWithBytes(r, startThrows)

DecodeSpec == DecodeInit /\ [][DecodeNext]_vars

(***************************************************************************)
(* Properties                                                              *)
(***************************************************************************)
Count(log, e) == Cardinality({i \in 1..Len(log) : log[i] = e})

\* the place of the first e in log, 0 when there is none
Index(log, e) ==
  IF \E i \in 1..Len(log) : log[i] = e
  THEN CHOOSE i \in 1..Len(log) : log[i] = e /\ \A j \in 1..(i - 1) : log[j] # e
  ELSE 0

\* every call the state knows: those in flight and the one that just ended
KnownCalls == InFlight \cup {finished}

\* the calls whose handleSendMessage has returned and whose source is still to end
PlayingCount ==
  BagCardinality([r \in {x \in InFlight : x.pc = "playing"} |-> calls[r]])

\* this step started a source on the audio context
SchedulingStep == PlayingCount' > PlayingCount

Odd(n) == n % 2 = 1

\* C1: over the lifetime of one call of synthesizeAndPlaySpeech and of its
\* source, the ended callback is never invoked twice, and it has been invoked
\* exactly once when the call has settled and its source (if any) has ended,
\* on every path: played, no audio, or any failure.
C1_EndedExactlyOnce ==
  /\ \A r \in KnownCalls : Count(r.log, "ended") <= 1
  /\ \A r \in InFlight : Outcome(r) \in {"resolvedFalse", "rejected"} => r.pc = "done"
  /\ finished.pc = "done" =>
       /\ Outcome(finished) # "pending"
       /\ finished.currentSources = {}
       /\ Count(finished.log, "ended") = 1

\* a call whose scheduling failed after its started callback has ended once
C1_Witness ==
  /\ finished.log = <<"started", "ended", "rejected">>
  /\ finished.thrown = StartError

\* C2 (as amended): a response without audio payload makes the call invoke
\* the ended callback exactly once and the started callback never, start no
\* source, resolve to false without rejecting; the cursor is not advanced by
\* a duration, it is what the application's ended handler made it: the audio
\* clock's current time.
C2_NoAudio ==
  Outcome(finished) = "resolvedFalse" =>
    /\ finished.log = <<"ended", "resolvedFalse">>
    /\ finished.currentSources = {}
    /\ ~finished.playbackScheduled
    /\ finished.thrown = NoError /\ finished.error = NoError
    /\ nextStartTime = currentTime

\* a no-audio call has ended and its handler moved the cursor to the clock
C2_Witness ==
  /\ Outcome(finished) = "resolvedFalse"
  /\ nextStartTime = currentTime
  /\ currentTime > 0

\* C2 as stated: the no-audio path leaves the clock cursor unchanged.
C2_CursorUnchanged ==
  [][Outcome(finished') = "resolvedFalse" =>
       /\ finished'.log = <<"ended", "resolvedFalse">>
       /\ nextStartTime' = nextStartTime]_vars

\* C3: a call that fails before a chunk was scheduled (credential missing,
\* provider rejection, decode failure) invokes the ended callback exactly
\* once, does so before its promise rejects, and rejects with the very error
\* that was raised; a raised error is never swallowed.
C3_FailurePropagated ==
  /\ (Outcome(finished) = "rejected" /\ ~finished.playbackScheduled) =>
       /\ Count(finished.log, "ended") = 1
       /\ Index(finished.log, "ended") < Index(finished.log, "rejected")
       /\ finished.thrown # NoError
       /\ finished.error = finished.thrown
  /\ \A r \in KnownCalls : r.thrown # NoError => Outcome(r) = "rejected"

\* a provider rejection with status 401 has been re-thrown after the callback
C3_Witness ==
  /\ finished.log = <<"ended", "rejected">>
  /\ finished.error.status = 401

\* C4: in a call that scheduled its audio the started callback has been
\* invoked (once) and precedes the ended callback; the ended callback of such
\* a call never comes before or without the started one.
C4_StartedBeforeEnded ==
  \A r \in KnownCalls :
    r.playbackScheduled =>
      /\ Count(r.log, "started") = 1
      /\ Index(r.log, "ended") # 0 => Index(r.log, "started") < Index(r.log, "ended")

\* an utterance was played to its end
C4_Witness ==
  /\ finished.playbackScheduled
  /\ finished.log = <<"started", "resolvedTrue", "ended">>

\* C5 as stated: each source is started no earlier than the end of the source
\* started before it (start + duration) and no earlier than the audio clock at
\* that moment, also across utterances with the cursor reset in between.
C5_Gapless ==
  [][SchedulingStep =>
       /\ lastSource'.start >= currentTime
       /\ lastSource # NoSource =>
            lastSource'.start >= lastSource.start + lastSource.duration]_vars

\* C6: playAudioBuffer starts the source at max(cursor, currentTime) and
\* leaves the cursor at start + duration; a buffer of 24000 frames at 24000 Hz
\* scheduled with cursor 0 and clock 0 leaves the cursor at one second.
C6_CursorAdvance ==
  [][/\ SchedulingStep =>
          /\ lastSource'.start = Max(nextStartTime, currentTime)
          /\ nextStartTime' = lastSource'.start + lastSource'.duration
          /\ lastSource'.duration >= 1
     /\ LET oneSecond == Duration([length |-> 24000, sampleRate |-> TTS_SAMPLE_RATE])
        IN  /\ oneSecond = CTX_SAMPLE_RATE
            /\ PlayAudioBuffer(oneSecond, 0, 0, FALSE).nextStartTime = CTX_SAMPLE_RATE
    ]_vars

\* a source was started at the clock, later than the cursor's initial value
C6_Witness ==
  /\ lastSource # NoSource
  /\ lastSource.start = currentTime
  /\ lastSource.start > 0
  /\ nextStartTime = lastSource.start + lastSource.duration

\* C7 as stated: the cursor never decreases, and the ended handler resets it
\* to the clock only when no scheduled source is still pending.
C7_CursorMonotonic ==
  [][/\ nextStartTime' >= nextStartTime
     /\ finished' # NewCall =>
          /\ nextStartTime' = currentTime'
          /\ \A r \in BagToSet(calls') : r.currentSources = {}]_vars

\* C8: decodeAudioData rejects every byte sequence of odd length (RangeError
\* of the Int16Array view) and produces no buffer; inside
\* synthesizeAndPlaySpeech the call then rejects with that error, starts no
\* source and never invokes the started callback.
C8_OddLengthRejected ==
  Odd(Len(pcmData)) =>
    /\ pcmResult # NotDecoded => (~pcmResult.ok /\ pcmResult.error = RangeError)
    /\ finished # NewCall =>
         /\ finished.byteLength = Len(pcmData)
         /\ Outcome(finished) = "rejected"
         /\ finished.error = RangeError
         /\ Count(finished.log, "started") = 0
         /\ finished.currentSources = {}
         /\ ~finished.playbackScheduled
         /\ lastSource = NoSource
         /\ ~isSpeaking

\* an odd-length payload was both decoded on its own and answered to a call
C8_Witness ==
  /\ Odd(Len(pcmData))
  /\ Len(pcmData) >= 3
  /\ pcmResult # NotDecoded
  /\ finished.error = RangeError

\* whole frames in the bytes of pcmData for pcmChannels channels
WholeFrames == (Len(pcmData) \div 2) \div pcmChannels

\* C9 (as amended): for an even-length byte sequence holding at least one
\* whole frame, decodeAudioData produces a buffer of pcmChannels channels
\* with exactly floor(byteLength / 2 / channels) frames each, the samples of
\* an incomplete last frame being dropped without error; with no whole frame
\* (floor = 0) createBuffer refuses the length and the decode rejects.
C9_FrameCount ==
  (~Odd(Len(pcmData)) /\ pcmResult # NotDecoded) =>
    IF WholeFrames >= 1
    THEN /\ pcmResult.ok
         /\ pcmResult.value.length = WholeFrames
         /\ pcmResult.value.numberOfChannels = pcmChannels
         /\ \A c \in 1..pcmChannels : Len(pcmResult.value.channelData[c]) = WholeFrames
    ELSE ~pcmResult.ok /\ pcmResult.error = NotSupportedError

\* a decode that dropped the samples of an incomplete frame
C9_Witness ==
  /\ pcmResult # NotDecoded
  /\ pcmResult.ok
  /\ (Len(pcmData) \div 2) % pcmChannels # 0
  /\ pcmResult.value.length = WholeFrames

\* C9 as stated: every even-length byte sequence decodes to a buffer of
\* floor(byteLength / 2 / channels) frames.
C9_EveryEvenLength ==
  (~Odd(Len(pcmData)) /\ pcmResult # NotDecoded) =>
    /\ pcmResult.ok
    /\ pcmResult.value.length = WholeFrames

\* the signed 16-bit value of the little-endian byte pair lo, hi
Signed16(lo, hi) == IF hi >= 128 THEN lo + 256 * hi - 65536 ELSE lo + 256 * hi

\* C10: in every decoded buffer the sample at frame i of channel c is the
\* signed 16-bit value at interleaved index i*channels + c divided by 32768,
\* so it lies in [-1, 1): nothing is clipped.
C10_SampleValues ==
  (pcmResult # NotDecoded /\ pcmResult.ok) =>
    \A c \in 1..pcmChannels : \A i \in 1..pcmResult.value.length :
      LET v == pcmResult.value.channelData[c][i]
          k == (i - 1) * pcmChannels + (c - 1)
          x == Signed16(pcmData[2 * k + 1], pcmData[2 * k + 2])
      IN  /\ v.den = 32768
          /\ v.num = x
          /\ -1 * v.den <= v.num
          /\ v.num < v.den

\* a buffer holding both extremes, -32768/32768 and 32767/32768
C10_Witness ==
  /\ pcmResult # NotDecoded
  /\ pcmResult.ok
  /\ \E c \in 1..pcmChannels : \E i \in 1..pcmResult.value.length :
       pcmResult.value.channelData[c][i].num = -32768
  /\ \E c \in 1..pcmChannels : \E i \in 1..pcmResult.value.length :
       pcmResult.value.channelData[c][i].num = 32767

\* every call after the step: those in flight and the one that just ended
KnownCallsAfter == BagToSet(calls') \cup {finished'}

\* C11: a call settles in exactly one of three ways.  It resolves to true
\* exactly when a chunk was scheduled, it rejects exactly when an error was
\* raised inside it, and the step in which the provider request settles
\* resolves it to false exactly when the response carries no audio payload;
\* no other step resolves a call to false.
C11_ThreeOutcomes ==
  [][/\ \A c \in KnownCallsAfter :
          /\ Count(c.log, "resolvedTrue") + Count(c.log, "resolvedFalse")
               + Count(c.log, "rejected") <= 1
          /\ Outcome(c) = "resolvedTrue" <=> c.playbackScheduled
          /\ Outcome(c) = "rejected" <=> c.thrown # NoError
          /\ Outcome(c) = "resolvedFalse" => (c.thrown = NoError /\ ~c.playbackScheduled)
     /\ \A r \in InFlight, response \in Responses, startThrows \in BOOLEAN :
          ProviderResponds(r, response, startThrows) =>
            LET c == AfterSynthesize(SynthesizeAfterResponse(Frame(r), response,
                                                              startThrows)).call
            IN  /\ Outcome(c) # "pending"
                /\ Outcome(c) = "resolvedFalse" <=> response.kind = "noAudio"
                /\ response.kind = "reject" =>
                     (Outcome(c) = "rejected" /\ c.error = response.error)
     /\ Outcome(finished') = "resolvedFalse" =>
          \E r \in InFlight, response \in Responses, startThrows \in BOOLEAN :
            /\ response.kind = "noAudio"
            /\ ProviderResponds(r, response, startThrows)
    ]_vars

\* a call has resolved to true and its source is still playing
C11_Witness ==
  \E r \in InFlight :
    /\ r.pc = "playing"
    /\ Outcome(r) = "resolvedTrue"
    /\ r.currentSources # {}
    /\ isSpeaking

\* C12 as stated: when an utterance whose audio was scheduled has finished
\* playing and its ended handler has run, the bot status is Idle; it is not
\* left at Speaking.
C12_IdleAfterPlayback ==
  (finished.pc = "done" /\ finished.playbackScheduled
     /\ Index(finished.log, "ended") # 0) =>
    /\ botStatus = "Idle"
    /\ botStatus # "Speaking"

\* the invocations whose synthesizeAndPlaySpeech has been called and whose
\* ended callback is still to come
Utterances == {r \in InFlight : r.pc \in {"requesting", "playing"}}

UtterancesInFlight == BagCardinality([r \in Utterances |-> calls[r]])

\* C13 as stated: the application serializes utterances; between the
\* submission of a message and the ended callback of its utterance no second
\* synthesizeAndPlaySpeech call is started, so at most one is in flight.
C13_Serialized == UtterancesInFlight <= 1

\* the decode errors: atob, the Int16Array view, createBuffer
DecodeErrors == {InvalidCharacterError, RangeError, NotSupportedError}

\* C14 as stated: a call invokes its started callback only after its provider
\* request has settled and its payload has been decoded; the UI status is
\* never Speaking while a provider request is pending, and a call whose
\* decode failed has not invoked the started callback.
C14_StartedAfterDecode ==
  /\ \A r \in KnownCalls :
       /\ r.pc = "requesting" => Count(r.log, "started") = 0
       /\ Count(r.log, "started") > 0 => r.byteLength >= 1
       /\ r.thrown \in DecodeErrors => Count(r.log, "started") = 0
  /\ (\E r \in InFlight : r.pc = "requesting") => botStatus # "Speaking"

CallbackStep ==
  \/ SchedulingStep
  \/ Count(finished'.log, "ended") > 0
  \/ Count(finished'.log, "started") > 0

C17_ActivePlaybackSet ==
  [][/\ \A c \in KnownCallsAfter :
          /\ c.pc = "playing" =>
               /\ c.playbackScheduled
               /\ Cardinality(c.currentSources) = 1
               /\ Count(c.log, "ended") = 0
          /\ c.pc # "playing" => c.currentSources = {}
          /\ (c.playbackScheduled /\ c.pc = "done") => Count(c.log, "ended") = 1
     /\ SchedulingStep =>
          \E c \in BagToSet(calls') : c.pc = "playing" /\ lastSource' \in c.currentSources
     /\ PlayingCount' < PlayingCount =>
          /\ \E r \in InFlight : \E source \in r.currentSources :
               /\ SourceEnded(r, source)
               /\ currentTime >= source.start + source.duration
               /\ finished'.log = Append(r.log, "ended")
          /\ finished'.playbackScheduled
          /\ finished'.currentSources = {}
          /\ PlayingCount' = PlayingCount - 1
    ]_vars

\* the only source of a played call has left the set and nothing is pending
C17_Witness ==
  /\ finished.playbackScheduled
  /\ finished.currentSources = {}
  /\ Count(finished.log, "ended") = 1
  /\ calls = EmptyBag
  /\ currentTime >= lastSource.start + lastSource.duration

\* the provider requests in flight
RequestCount ==
  BagCardinality([r \in {x \in InFlight : x.pc = "requesting"} |-> calls[r]])

\* the failures the claim calls authorization-class
AuthorizationFailure(error) ==
  error.status = 401 \/ error.status = 403 \/ error = MissingKeyError

\* a call rejects with an authorization-class error: status Error, key
\* marked as not selected
C18_AuthMarksKey ==
  (Outcome(finished') = "rejected" /\ AuthorizationFailure(finished'.error)) =>
    (botStatus' = "Error" /\ ~hasApiKey')

\* while the key is marked as not selected no provider request is issued, and
\* only a successful handleSelectApiKey marks it selected again
C18_NoRequestUntilSelected ==
  /\ ~hasApiKey => RequestCount' <= RequestCount
  /\ (~hasApiKey /\ hasApiKey') => \E keyNow \in BOOLEAN : SelectKeySettles(TRUE, keyNow)

\* any other failure leaves the key state alone and the input usable
C18_OtherFailures ==
  (Outcome(finished') = "rejected" /\ ~AuthorizationFailure(finished'.error)) =>
    /\ hasApiKey' = hasApiKey
    /\ hasApiKey => ~(isProcessing' \/ isSpeaking' \/ ~hasApiKey')

\* C18 as stated: an authorization-class rejection (401, 403, missing
\* API_KEY) sets the status to Error and marks the key as not selected, after
\* which no provider request is issued until handleSelectApiKey has succeeded;
\* any other failure leaves the key state unchanged and the input usable.
C18_AuthorizationFailure ==
  [][C18_AuthMarksKey /\ C18_NoRequestUntilSelected /\ C18_OtherFailures]_vars

\* C19 as stated: when an utterance has terminated, by any path, isProcessing
\* and isSpeaking are both false; and from the submission of a message until
\* that point at least one of the two is true.
C19_FlagsCoverUtterance ==
  /\ finished.pc = "done" => (~isProcessing /\ ~isSpeaking)
  /\ calls # EmptyBag => (isProcessing \/ isSpeaking)

\* C20 as stated: when resuming the suspended audio context fails,
\* handleSendMessage stops after reporting it: the status stays Error,
\* isProcessing is not set, synthesizeAndPlaySpeech is not called and no
\* provider request is issued for that submission.
C20_StopsAfterFailedResume ==
  [][\A r \in InFlight :
       ResumeSettles(r, FALSE) =>
         /\ botStatus' = "Error"
         /\ isProcessing' = isProcessing
         /\ RequestCount' = RequestCount
         /\ finished'.pc = "done"
         /\ finished'.log = <<>>]_vars

\* the followed call has invoked its terminal callback and is over
FollowedEnded ==
  /\ finished.tracked
  /\ finished.pc = "done"
  /\ Count(finished.log, "ended") = 1

\* the audio subsystem cannot deliver the ended event of the followed call's
\* source: the context is not running, or the source ends beyond the horizon
\* of the audio clock
Undeliverable ==
  \E r \in Followed : \E source \in r.currentSources :
    ctxState # "running" \/ source.start + source.duration > MaxTime

\* the copies of record r in a bag
Copies(r, bag) == IF r \in BagToSet(bag) THEN bag[r] ELSE 0

\* C15: a call of synthesizeAndPlaySpeech whose provider request settles and
\* whose source's ended event is delivered reaches its terminal callback;
\* and there is no timeout: while its provider request is pending a call has
\* not invoked the callback, and it leaves that state only in a step in which
\* the call settles (it resolves to false, rejects, or schedules its source).
C15_EventuallyEnded ==
  /\ (\E r \in Followed : r.pc \in {"requesting", "playing"})
       ~> (FollowedEnded \/ Undeliverable)
  /\ [](\A r \in InFlight : r.pc = "requesting" => r.log = <<>>)
  /\ [][\A r \in InFlight :
          (r.pc = "requesting" /\ Copies(r, calls') < Copies(r, calls))
          => /\ Copies(r, calls') = Copies(r, calls) - 1
             /\ \/ Outcome(finished') \in {"resolvedFalse", "rejected"}
                \/ SchedulingStep]_vars

\* the followed call was played to its end and invoked the terminal callback
C15_Witness ==
  /\ FollowedEnded
  /\ finished.log = <<"started", "resolvedTrue", "ended">>

====
